---- MODULE Spec2Model ----
(***************************************************************************)
(* Model of src/linux/amd.rs of gpuinfo: discovery of the active AMD GPU   *)
(* (active_gpu), the AmdGpu adapter with its identity accessors, and the   *)
(* AmdGpuInfo telemetry view that shares the adapter's Rc<DeviceHandle>.   *)
(*                                                                         *)
(* The libdrm_amdgpu_sys library and the kernel are the environment: every *)
(* call into them draws its outcome from a small set.  The program is      *)
(* single-threaded, so the caller's operations run only between two calls  *)
(* of active_gpu (pc = "idle").                                            *)
(***************************************************************************)
EXTENDS Integers, Sequences, FiniteSets, Bags, TLC

(* ------------------------------ bounds ------------------------------- *)

\* Number of AMD devices the PCI bus can hold.  A device is named by its
\* place in the order in which the bus lists the devices.
MaxDevs == 2
\* Number of telemetry views the caller keeps at once.
MaxViews == 2
\* Number of driver handles initialised in one run.
MaxHandles == 2

Devices == 1..MaxDevs
Handles == 1..MaxHandles

(* --------------------------- the environment ------------------------- *)

\* Result<T, E> of a call into the driver library or the kernel.
Ok(v) == [ok |-> TRUE, val |-> v, err |-> 0]
Err(e) == [ok |-> FALSE, val |-> 0, err |-> e]

\* errno values the driver calls fail with (i32).
DriverErrs == {-13, -22}
\* OS error codes path resolution and File::open fail with (std::io::Error).
IoErrs == {2, 13}

\* get_drm_render_path: the render node of a PCI device.
RenderPath(d) == [dir |-> "/dev/dri", node |-> "renderD", minor |-> 127 + d]
NoPath == [dir |-> "", node |-> "", minor |-> 0]
\* The device a render node belongs to (what File::open resolves).
DevOfPath(p) == p.minor - 127

\* drm_amdgpu_info_device as the driver reports it for a device.
Families == <<"Navi21", "Vega10", "Raven">>
DeviceNames == <<"AMD Radeon RX 6800 XT", "">>
DeviceInfo(d) ==
  [name |-> DeviceNames[((d - 1) % Len(DeviceNames)) + 1],
   family |-> Families[((d - 1) % Len(Families)) + 1],
   device_id |-> 4097 + d]

\* What memory_info answers: an errno, or drm_amdgpu_memory_info.vram.
MemOutcomes ==
  {Err(e) : e \in DriverErrs} \cup
  {Ok([total_heap_size |-> 16, heap_usage |-> 4])}
\* What sensor_info answers: an errno, or a u32 reading.
SensorValues == {0, 100, 101}
SensorOutcomes == {Err(e) : e \in DriverErrs} \cup {Ok(x) : x \in SensorValues}

(* ------------------------------ state -------------------------------- *)

VARIABLES
  bus,         \* number of AMD devices on the PCI bus during the call
  pc,          \* position in active_gpu: "idle" or the stage to run next
  stages,      \* stages the current (or last) call ran, with their outcome
  pci_devs,    \* local pci_devs of the current (or last) call
  dev_path,    \* local dev_path
  fd,          \* local fd: the File of the inner block
  device,      \* local device: the DeviceHandle not yet moved into an Rc
  before,      \* open descriptors and live handles when the call began
  result,      \* what the last call of active_gpu returned
  touched,     \* devices the current (or last) call resolved, opened or queried
  gpu,         \* the AmdGpu the caller holds
  views,       \* the AmdGpuInfo views the caller holds (a bag: views of
               \* one adapter are told apart by nothing)
  strong,      \* strong count of the Rc around each handle
  openFds,     \* descriptors of the process opened by File::open
  liveHandles, \* handles initialised and not yet deinitialised
  handleDev,   \* the device each handle is a session of
  nextHandle,  \* the next handle the driver hands out
  released,    \* how often each handle was deinitialised
  last         \* the caller's last operation, the driver query it made
               \* and what it returned

vars == <<bus, pc, stages, pci_devs, dev_path, fd, device, before, result, touched,
          gpu, views, strong, openFds, liveHandles, handleDev, nextHandle,
          released, last>>

NoGpu == [tag |-> "none"]
NoFd == [n |-> 0, dev |-> 0]
NoResult == [tag |-> "none", msg |-> <<>>]
NoCall == [fn |-> "", live |-> TRUE, out |-> Err(0)]
NoLast == [op |-> "", str |-> "", num |-> 0, call |-> NoCall]

\* What an operation returned (a &str or a number) and the driver query it
\* made, NoCall when it made none.
Returned(op, str, num, call) ==
  [op |-> op, str |-> str, num |-> num, call |-> call]

Init ==
  /\ bus = 0
  /\ pc = "idle"
  /\ stages = <<>>
  /\ pci_devs = <<>>
  /\ dev_path = NoPath
  /\ fd = NoFd
  /\ device = 0
  /\ before = [fds |-> 0, handles |-> 0]
  /\ result = NoResult
  /\ touched = {}
  /\ gpu = NoGpu
  /\ views = EmptyBag
  /\ strong = [h \in Handles |-> 0]
  /\ openFds = {}
  /\ liveHandles = {}
  /\ handleDev = [h \in Handles |-> 0]
  /\ nextHandle = 1
  /\ released = [h \in Handles |-> 0]
  /\ last = NoLast

(* ------------------------- errors of active_gpu ---------------------- *)

\* A Box<dyn Error> is modelled by its message, a sequence of text pieces.
\* Line 99: map_err(|_| "Could not initialize libdrm") drops the detail.
LibdrmErr == <<"Could not initialize libdrm">>
\* Faulty variant of NoDeviceErr: the message of line 99 pasted at line 103.
NoDeviceErrAsLibdrm == <<"Could not initialize libdrm">>
\* Lines 103 and 109.
NoDeviceErr == <<"No AMD GPU found">>
\* `?` on an io::Result: the io::Error itself is boxed (lines 108, 113).
IoErr(e) == <<"os error ", ToString(e)>>
\* Faulty variant of HandleInitErr: the driver's detail is dropped, as line 99
\* drops it.
HandleInitErrNoDetail(e) == <<"Could not init device handle">>
\* Line 116: format!("Could not init device handle: {e}").
HandleInitErr(e) == <<"Could not init device handle: ", ToString(e)>>
\* Line 121: format!("Could not get device info: {e}").
InfoQueryErr(e) == <<"Could not get device info: ", ToString(e)>>

OkResult == [tag |-> "Ok", msg |-> <<>>]
ErrResult(m) == [tag |-> "Err", msg |-> m]

\* The `?` operator: go on with the value on Ok, return on Err.
Try(out) == out.ok

StageEntry(name, out) == [stage |-> name, ok |-> out.ok, err |-> out.err]

(* ----------------------- helpers of active_gpu ----------------------- *)

\* AMDGPU::get_all_amdgpu_pci_bus() (line 100): the devices in bus order.
GetAllAmdgpuPciBus == [i \in 1..bus |-> i]

\* Vec::is_empty (line 102).
IsEmpty(s) == Len(s) = 0
\* Faulty variant of First: slice::last.
LastOf(s) == IF Len(s) = 0 THEN [some |-> FALSE, val |-> 0]
             ELSE [some |-> TRUE, val |-> s[Len(s)]]
\* slice::first (line 107).
First(s) == IF Len(s) = 0 THEN [some |-> FALSE, val |-> 0]
            ELSE [some |-> TRUE, val |-> s[1]]

\* File::open hands out the lowest free descriptor above the std streams.
LowestFreeFd == CHOOSE n \in 3..(3 + Cardinality(openFds)) :
                  /\ \A f \in openFds : f.n # n
                  /\ \A m \in 3..(n - 1) : \E f \in openFds : f.n = m

\* Faulty variant of DropFile: the descriptor outlives the File
\* (into_raw_fd in place of as_raw_fd).
LeakFile(fds, f) == fds
\* Drop of the File at the end of the inner block or on an early return.
DropFile(fds, f) == fds \ {f}

\* info.find_device_name_or_default() (line 128).
DefaultDeviceName == "AMD Radeon Graphics"
FindDeviceNameOrDefault(info) ==
  IF info.name = "" THEN DefaultDeviceName ELSE info.name

\* Faulty variant of AmdGpu: vendor is taken from the device name.
AmdGpuVendorFromModel(path, h, info) ==
  [tag |-> "gpu", path |-> path, device |-> h,
   vendor |-> FindDeviceNameOrDefault(info),
   model |-> FindDeviceNameOrDefault(info),
   family |-> info.family,
   device_id |-> info.device_id]
\* The struct literal of lines 123-131.
AmdGpu(path, h, info) ==
  [tag |-> "gpu", path |-> path, device |-> h,
   vendor |-> "AMD",
   model |-> FindDeviceNameOrDefault(info),
   family |-> info.family,
   device_id |-> info.device_id]

(* ------------------------- Rc<DeviceHandle> -------------------------- *)

\* Rc::new (line 125), Rc::clone (line 52) and the decrement of Rc's Drop.
RcNew(s, h) == [s EXCEPT ![h] = 1]
\* Faulty variant of RcClone: the pointer is copied, the count is not raised.
RcCloneNoCount(s, h) == s
RcClone(s, h) == [s EXCEPT ![h] = @ + 1]
RcDec(s, h) == [s EXCEPT ![h] = @ - 1]

\* Drop of a DeviceHandle: the driver session is deinitialised.
DropDeviceHandle(h) ==
  /\ liveHandles' = liveHandles \ {h}
  /\ handleDev' = [handleDev EXCEPT ![h] = 0]
  /\ released' = [released EXCEPT ![h] = @ + 1]

\* Drop of one Rc<DeviceHandle>: the last one drops the DeviceHandle.
DropRc(h) ==
  /\ strong' = RcDec(strong, h)
  /\ IF strong'[h] = 0
     THEN DropDeviceHandle(h)
     ELSE UNCHANGED <<liveHandles, handleDev, released>>

\* The locals pci_devs and dev_path are dropped when the call returns.
LocalsAfter(next_pc) ==
  /\ pci_devs' = IF next_pc = "idle" THEN <<>> ELSE pci_devs
  /\ dev_path' = IF next_pc = "idle" THEN NoPath ELSE dev_path

callerVars == <<gpu, views, strong>>
driverVars == <<openFds, liveHandles, handleDev, nextHandle, released>>
callVars == <<bus, pc, stages, result, pci_devs, dev_path, fd, device, before,
              touched>>

(* ----------------------------- active_gpu ---------------------------- *)

\* What the library and the kernel can answer at each stage.
LibOutcomes == {Ok(0)} \cup {Err(e) : e \in DriverErrs}
PathOutcomes(d) == {Ok(RenderPath(d))} \cup {Err(e) : e \in IoErrs}
OpenOutcomes == {Ok(0)} \cup {Err(e) : e \in IoErrs}
HandleOutcomes == {Ok(0)} \cup {Err(e) : e \in DriverErrs}
InfoOutcomes(d) == {Ok(DeviceInfo(d))} \cup {Err(e) : e \in DriverErrs}

\* Line 99: the call begins; LibDrmAmdgpu::new().  The caller keeps one
\* adapter at a time; the bus may have changed since the last call.
LibDrmNew ==
  /\ pc = "idle"
  /\ gpu = NoGpu
  /\ nextHandle <= MaxHandles
  /\ bus' \in 0..MaxDevs
  /\ \E out \in LibOutcomes :
       /\ stages' = <<StageEntry("driver_init", out)>>
       /\ IF Try(out)
          THEN pc' = "enumeration" /\ result' = NoResult
          ELSE pc' = "idle" /\ result' = ErrResult(LibdrmErr)
  /\ before' = [fds |-> Cardinality(openFds),
                handles |-> Cardinality(liveHandles)]
  /\ pci_devs' = <<>>
  /\ dev_path' = NoPath
  /\ touched' = {}
  /\ last' = Returned("active_gpu", "", 0, NoCall)
  /\ UNCHANGED <<fd, device, callerVars, driverVars>>

\* Lines 100-104: get_all_amdgpu_pci_bus() and the is_empty() check.
Enumerate ==
  /\ pc = "enumeration"
  /\ LET devs == GetAllAmdgpuPciBus IN
       /\ stages' = Append(stages, [stage |-> "enumeration",
                                    ok |-> ~IsEmpty(devs), err |-> 0])
       /\ IF IsEmpty(devs)
          THEN /\ pc' = "idle"
               /\ result' = ErrResult(NoDeviceErr)
               /\ pci_devs' = <<>>
          ELSE /\ pc' = "path_resolution"
               /\ pci_devs' = devs
               /\ UNCHANGED result
  /\ UNCHANGED <<bus, dev_path, fd, device, before, touched, callerVars,
                 driverVars, last>>

\* Lines 107-110: pci_devs.first() and get_drm_render_path()?.
ResolvePath ==
  /\ pc = "path_resolution"
  /\ LET f == First(pci_devs) IN
       IF ~f.some
       THEN /\ pc' = "idle"
            /\ result' = ErrResult(NoDeviceErr)
            /\ dev_path' = NoPath
            /\ UNCHANGED <<stages, touched>>
       ELSE \E out \in PathOutcomes(f.val) :
              /\ stages' = Append(stages, StageEntry("path_resolution", out))
              /\ touched' = touched \cup {f.val}
              /\ IF Try(out)
                 THEN /\ dev_path' = out.val
                      /\ pc' = "file_open"
                      /\ UNCHANGED result
                 ELSE /\ pc' = "idle"
                      /\ result' = ErrResult(IoErr(out.err))
                      /\ dev_path' = NoPath
  /\ pci_devs' = IF pc' = "idle" THEN <<>> ELSE pci_devs
  /\ UNCHANGED <<bus, fd, device, before, callerVars, driverVars, last>>

\* Line 113: File::open(&dev_path)?.
OpenFile ==
  /\ pc = "file_open"
  /\ \E out \in OpenOutcomes :
       /\ stages' = Append(stages, StageEntry("file_open", out))
       /\ touched' = touched \cup {DevOfPath(dev_path)}
       /\ IF Try(out)
          THEN /\ fd' = [n |-> LowestFreeFd, dev |-> DevOfPath(dev_path)]
               /\ openFds' = openFds \cup {fd'}
               /\ pc' = "handle_init"
               /\ UNCHANGED result
          ELSE /\ pc' = "idle"
               /\ result' = ErrResult(IoErr(out.err))
               /\ UNCHANGED <<fd, openFds>>
  /\ LocalsAfter(pc')
  /\ UNCHANGED <<bus, device, before, callerVars, liveHandles, handleDev,
                 nextHandle, released, last>>

\* Lines 114-117: drm.init_device_handle(fd.as_raw_fd()); the File is dropped
\* where the block ends, or by the early return.
InitDeviceHandle ==
  /\ pc = "handle_init"
  /\ \E out \in HandleOutcomes :
       /\ stages' = Append(stages, StageEntry("handle_init", out))
       /\ touched' = touched \cup {fd.dev}
       /\ IF Try(out)
          THEN /\ device' = nextHandle
               /\ nextHandle' = nextHandle + 1
               /\ liveHandles' = liveHandles \cup {nextHandle}
               /\ handleDev' = [handleDev EXCEPT ![nextHandle] = fd.dev]
               /\ pc' = "info_query"
               /\ UNCHANGED result
          ELSE /\ pc' = "idle"
               /\ result' = ErrResult(HandleInitErr(out.err))
               /\ UNCHANGED <<device, nextHandle, liveHandles, handleDev>>
  /\ openFds' = DropFile(openFds, fd)
  /\ fd' = NoFd
  /\ LocalsAfter(pc')
  /\ UNCHANGED <<bus, before, callerVars, released, last>>

\* Faulty variant of QueryDeviceInfo: it builds the adapter from default info when
\* the query fails (unwrap_or_default in place of `?`).
QueryDeviceInfoOrDefault ==
  /\ pc = "info_query"
  /\ \E out \in InfoOutcomes(handleDev[device]) :
       /\ stages' = Append(stages, StageEntry("info_query", out))
       /\ touched' = touched \cup {handleDev[device]}
       /\ gpu' = AmdGpu(dev_path, device,
                        IF out.ok THEN out.val
                        ELSE [name |-> "", family |-> "", device_id |-> 0])
  /\ strong' = RcNew(strong, device)
  /\ result' = OkResult
  /\ pc' = "idle"
  /\ device' = 0
  /\ LocalsAfter("idle")
  /\ UNCHANGED <<bus, fd, before, views, driverVars, last>>

\* Lines 119-131: device.device_info() and the construction of the AmdGpu;
\* an early return drops the DeviceHandle.
QueryDeviceInfo ==
  /\ pc = "info_query"
  /\ \E out \in InfoOutcomes(handleDev[device]) :
       /\ stages' = Append(stages, StageEntry("info_query", out))
       /\ touched' = touched \cup {handleDev[device]}
       /\ IF Try(out)
          THEN /\ gpu' = AmdGpu(dev_path, device, out.val)
               /\ strong' = RcNew(strong, device)
               /\ result' = OkResult
               /\ UNCHANGED <<liveHandles, handleDev, released>>
          ELSE /\ result' = ErrResult(InfoQueryErr(out.err))
               /\ DropDeviceHandle(device)
               /\ UNCHANGED <<gpu, strong>>
  /\ pc' = "idle"
  /\ device' = 0
  /\ LocalsAfter("idle")
  /\ UNCHANGED <<bus, fd, before, views, openFds, nextHandle, last>>

(* ------------------------ impl Gpu for AmdGpu ------------------------ *)

\* Lines 33-35.
Vendor ==
  /\ pc = "idle" /\ gpu # NoGpu
  /\ last' = Returned("vendor", gpu.vendor, 0, NoCall)
  /\ UNCHANGED <<callVars, callerVars, driverVars>>

\* Lines 37-39.
Model ==
  /\ pc = "idle" /\ gpu # NoGpu
  /\ last' = Returned("model", gpu.model, 0, NoCall)
  /\ UNCHANGED <<callVars, callerVars, driverVars>>

\* Lines 41-43.
Family ==
  /\ pc = "idle" /\ gpu # NoGpu
  /\ last' = Returned("family", gpu.family, 0, NoCall)
  /\ UNCHANGED <<callVars, callerVars, driverVars>>

\* Lines 45-47.
DeviceId ==
  /\ pc = "idle" /\ gpu # NoGpu
  /\ last' = Returned("device_id", "", gpu.device_id, NoCall)
  /\ UNCHANGED <<callVars, callerVars, driverVars>>

\* Faulty variant of AmdGpuInfo: the view gets a handle of its own.
AmdGpuInfoOwnHandle(g) == [device |-> (g.device % MaxHandles) + 1,
                           origin |-> g.device]
\* The AmdGpuInfo of lines 51-53; origin remembers the adapter it came from.
AmdGpuInfo(g) == [device |-> g.device, origin |-> g.device]

\* Lines 50-54: info() boxes a view around a clone of the Rc.
Info ==
  /\ pc = "idle" /\ gpu # NoGpu
  /\ BagCardinality(views) < MaxViews
  /\ views' = views (+) SetToBag({AmdGpuInfo(gpu)})
  /\ strong' = RcClone(strong, gpu.device)
  /\ last' = Returned("info", "", 0, NoCall)
  /\ UNCHANGED <<callVars, gpu, driverVars>>

(* --------------------- impl GpuInfo for AmdGpuInfo ------------------- *)

\* A call of DeviceHandle::memory_info or ::sensor_info on handle h.
DriverCall(fn, h, out) == [fn |-> fn, live |-> h \in liveHandles, out |-> out]

\* Faulty variant of TotalVramOf: the errno is returned on failure.
TotalVramOrErrno(out) == IF out.ok THEN out.val.total_heap_size ELSE out.err
\* Lines 65-70: the match on memory_info().
TotalVramOf(out) == IF out.ok THEN out.val.total_heap_size ELSE 0
\* Lines 74-79.
UsedVramOf(out) == IF out.ok THEN out.val.heap_usage ELSE 0
\* Result::unwrap_or_default of lines 86 and 93 (u32::default() is 0).
UnwrapOrDefault(out) == IF out.ok THEN out.val ELSE 0

\* Lines 64-71.
TotalVram(v) ==
  /\ pc = "idle" /\ BagIn(v, views)
  /\ \E out \in MemOutcomes :
       last' = Returned("total_vram", "", TotalVramOf(out),
                        DriverCall("memory_info", v.device, out))
  /\ UNCHANGED <<callVars, callerVars, driverVars>>

\* Lines 73-80.
UsedVram(v) ==
  /\ pc = "idle" /\ BagIn(v, views)
  /\ \E out \in MemOutcomes :
       last' = Returned("used_vram", "", UsedVramOf(out),
                        DriverCall("memory_info", v.device, out))
  /\ UNCHANGED <<callVars, callerVars, driverVars>>

\* Lines 82-87.
LoadPct(v) ==
  /\ pc = "idle" /\ BagIn(v, views)
  /\ \E out \in SensorOutcomes :
       last' = Returned("load_pct", "", UnwrapOrDefault(out),
                        DriverCall("sensor_info:GPU_LOAD", v.device, out))
  /\ UNCHANGED <<callVars, callerVars, driverVars>>

\* Lines 89-94.
Temperature(v) ==
  /\ pc = "idle" /\ BagIn(v, views)
  /\ \E out \in SensorOutcomes :
       last' = Returned("temperature", "", UnwrapOrDefault(out),
                        DriverCall("sensor_info:GPU_TEMP", v.device, out))
  /\ UNCHANGED <<callVars, callerVars, driverVars>>

(* ------------------------------- drops ------------------------------- *)

\* The caller drops the AmdGpu: its Rc<DeviceHandle> field is dropped.
DropGpu ==
  /\ pc = "idle" /\ gpu # NoGpu
  /\ gpu' = NoGpu
  /\ DropRc(gpu.device)
  /\ last' = Returned("drop_gpu", "", 0, NoCall)
  /\ UNCHANGED <<callVars, views, openFds, nextHandle>>

\* The caller drops a Box<dyn GpuInfo>.
DropView(v) ==
  /\ pc = "idle" /\ BagIn(v, views)
  /\ views' = views (-) SetToBag({v})
  /\ DropRc(v.device)
  /\ last' = Returned("drop_view", "", 0, NoCall)
  /\ UNCHANGED <<callVars, gpu, openFds, nextHandle>>

Next ==
  \/ LibDrmNew
  \/ Enumerate
  \/ ResolvePath
  \/ OpenFile
  \/ InitDeviceHandle
  \/ QueryDeviceInfo
  \/ Vendor
  \/ Model
  \/ Family
  \/ DeviceId
  \/ Info
  \/ \E v \in BagToSet(views) : TotalVram(v)
  \/ \E v \in BagToSet(views) : UsedVram(v)
  \/ \E v \in BagToSet(views) : LoadPct(v)
  \/ \E v \in BagToSet(views) : Temperature(v)
  \/ DropGpu
  \/ \E v \in BagToSet(views) : DropView(v)

Spec == Init /\ [][Next]_vars

(* ============================ properties ============================= *)

StageOrder == <<"driver_init", "enumeration", "path_resolution", "file_open",
                "handle_init", "info_query">>
AllStagesOk ==
  /\ Len(stages) = Len(StageOrder)
  /\ \A i \in 1..Len(stages) : stages[i].ok
HasReturned == pc = "idle" /\ result.tag # "none"
JustReturned == HasReturned /\ last.op = "active_gpu"
FailedAt(stage) ==
  /\ HasReturned /\ result.tag = "Err"
  /\ stages[Len(stages)].stage = stage
Contains(msg, piece) == \E i \in 1..Len(msg) : msg[i] = piece
AccessorOps == {"vendor", "model", "family", "device_id"}
TelemetryOps == {"total_vram", "used_vram", "load_pct", "temperature"}
\* Number of holders (the adapter and the views) of handle h.
Holders(h) ==
  (IF gpu # NoGpu /\ gpu.device = h THEN 1 ELSE 0)
  + BagCardinality([v \in {x \in BagToSet(views) : x.device = h} |-> views[v]])

\* C1 as stated: with no AMD device on the bus, a call of active_gpu returns
\* "No AMD GPU found" whatever the other stages do, driver-library
\* initialisation included.
C1_NoDeviceWhateverLibdrm ==
  (HasReturned /\ bus = 0) => (result = ErrResult(<<"No AMD GPU found">>))

\* C1 as amended: with no AMD device on the bus, a call whose driver-library
\* initialisation succeeded returns "No AMD GPU found" after the enumeration
\* and runs no later stage; a call whose initialisation failed returns
\* "Could not initialize libdrm" and never enumerates.  Either way no adapter
\* is built.
C1_NoDeviceFound ==
  (bus = 0) =>
    /\ pc \in {"idle", "enumeration"}
    /\ HasReturned =>
         /\ gpu = NoGpu
         /\ IF stages[1].ok
            THEN /\ result = ErrResult(<<"No AMD GPU found">>)
                 /\ Len(stages) = 2
                 /\ touched = {}
            ELSE /\ result = ErrResult(<<"Could not initialize libdrm">>)
                 /\ Len(stages) = 1
C1_Witness ==
  /\ HasReturned /\ bus = 0
  /\ Len(stages) = 2
  /\ result = ErrResult(<<"No AMD GPU found">>)

\* C2: when active_gpu has returned an error, whatever stage failed, as many
\* descriptors are open and as many driver handles are live as when the call
\* began, and the call holds none.
C2_NoLeakOnError ==
  (JustReturned /\ result.tag = "Err") =>
    /\ Cardinality(openFds) = before.fds
    /\ Cardinality(liveHandles) = before.handles
    /\ fd = NoFd
    /\ device = 0
C2_Witness ==
  /\ JustReturned
  /\ FailedAt("info_query")
  /\ before.handles = 1
  /\ Cardinality(liveHandles) = 1

\* C3: an adapter exists only after a call in which every stage succeeded,
\* with a live handle and all identity fields set; active_gpu returns Ok
\* exactly when every stage succeeded, and then the adapter exists.
C3_AdapterOnlyWhenAllStagesOk ==
  /\ (gpu # NoGpu) =>
       /\ result = OkResult
       /\ AllStagesOk
       /\ gpu.device \in liveHandles
       /\ handleDev[gpu.device] \in Devices
       /\ gpu.path # NoPath
       /\ gpu.vendor # "" /\ gpu.model # "" /\ gpu.family # ""
       /\ gpu.device_id # 0
  /\ HasReturned => (result = OkResult <=> AllStagesOk)
  /\ (JustReturned /\ result = OkResult) => gpu # NoGpu
C3_Witness ==
  /\ JustReturned
  /\ result = OkResult
  /\ gpu # NoGpu
  /\ gpu.device = 2

\* C4: total_vram, used_vram, load_pct and temperature return 0 when their
\* driver query fails, whatever the errno, and the driver's value
\* (total_heap_size, heap_usage, the sensor reading) when it succeeds.
C4_TelemetryZeroOnFailure ==
  (last.op \in TelemetryOps) =>
    LET out == last.call.out IN
      /\ last.call.fn =
           CASE last.op \in {"total_vram", "used_vram"} -> "memory_info"
             [] last.op = "load_pct" -> "sensor_info:GPU_LOAD"
             [] last.op = "temperature" -> "sensor_info:GPU_TEMP"
      /\ IF ~out.ok THEN last.num = 0
         ELSE last.num =
           CASE last.op = "total_vram" -> out.val.total_heap_size
             [] last.op = "used_vram" -> out.val.heap_usage
             [] OTHER -> out.val
C4_Witness ==
  /\ last.op = "total_vram"
  /\ last.call.out = Err(-22)
  /\ last.num = 0

\* C5: the driver handle is live and never released while the adapter or a
\* view holds it, is released exactly once when the last holder is gone, and
\* every telemetry query, also of a view that outlived its adapter, is made
\* on a live handle.
C5_HandleLiveWhileHeld ==
  /\ \A h \in Handles :
       /\ (Holders(h) > 0) =>
            (h \in liveHandles /\ released[h] = 0 /\ strong[h] = Holders(h))
       /\ (Holders(h) = 0 /\ h < nextHandle /\ device # h) =>
            (h \notin liveHandles /\ released[h] = 1)
       /\ released[h] <= 1
  /\ last.call.live
C5_Witness ==
  /\ gpu = NoGpu
  /\ last.op = "temperature"
  /\ last.call.live
  /\ released[1] = 1
  /\ BagCardinality(views) = 1

\* C6: every view holds the handle of the adapter it was made from, so two
\* views of one adapter read the same session of the same device; info()
\* opens nothing: every live handle is one active_gpu initialised for an
\* adapter, and no descriptor is open outside a call.
C6_ViewsShareHandle ==
  /\ \A v \in BagToSet(views) :
       /\ v.device = v.origin
       /\ v.device \in liveHandles
       /\ (gpu # NoGpu /\ v.origin = gpu.device) => v.device = gpu.device
  /\ \A v, w \in BagToSet(views) :
       (v.origin = w.origin) =>
         (v.device = w.device /\ handleDev[v.device] = handleDev[w.device])
  /\ \A h \in liveHandles :
       \/ h = device
       \/ gpu # NoGpu /\ gpu.device = h
       \/ \E v \in BagToSet(views) : v.origin = h
  /\ (pc = "idle") => (openFds = {})
C6_Witness ==
  /\ gpu # NoGpu
  /\ last.op = "info"
  /\ CopiesIn(AmdGpuInfo(gpu), views) = 2
  /\ Cardinality(liveHandles) = 1

\* C7: vendor, model, family and device_id return what construction fixed
\* ("AMD", and the name, family and id the static info query reported for
\* the adapter's device), make no driver query and change nothing; no
\* operation changes the fields of a live adapter.
C7_IdentityAccessorsPure ==
  [][ /\ (last'.op \in AccessorOps /\ last' # last) =>
           /\ gpu # NoGpu
           /\ UNCHANGED <<callVars, callerVars, driverVars>>
           /\ last'.call = NoCall
           /\ LET info == DeviceInfo(handleDev[gpu.device]) IN
                CASE last'.op = "vendor" -> last'.str = "AMD"
                  [] last'.op = "model" ->
                       last'.str = (IF info.name = "" THEN "AMD Radeon Graphics"
                                    ELSE info.name)
                  [] last'.op = "family" -> last'.str = info.family
                  [] last'.op = "device_id" -> last'.num = info.device_id
      /\ (gpu # NoGpu /\ gpu' # NoGpu) => gpu' = gpu
    ]_vars
C7_Witness ==
  /\ last.op = "device_id"
  /\ last.num = 4098
  /\ gpu.family = "Navi21"
  /\ gpu.vendor = "AMD"
  /\ BagCardinality(views) = 2

\* C8: only the first device of the enumeration is ever resolved, opened or
\* queried, also when one of its stages fails, and the adapter's path, handle
\* and identity are those of that device.
C8_FirstDeviceOnly ==
  /\ touched \subseteq {d \in Devices : d = 1 /\ d <= bus}
  /\ (pc \notin {"idle", "enumeration"}) => pci_devs[1] = 1
  /\ (gpu # NoGpu) =>
       /\ gpu.path = RenderPath(1)
       /\ handleDev[gpu.device] = 1
       /\ gpu.family = DeviceInfo(1).family
       /\ gpu.device_id = DeviceInfo(1).device_id
C8_Witness ==
  /\ bus = 2
  /\ FailedAt("file_open")
  /\ touched = {1}
  /\ gpu = NoGpu

\* C9: the stages run in the order driver init, enumeration, path
\* resolution, file open, handle init, info query, each at most once and
\* only after all earlier ones succeeded; an error returned is that of the
\* one failed stage, it carries the driver's detail for handle init and info
\* query, and no adapter is built.
C9_StageOrder ==
  /\ Len(stages) <= Len(StageOrder)
  /\ \A i \in 1..Len(stages) :
       /\ stages[i].stage = StageOrder[i]
       /\ (i < Len(stages)) => stages[i].ok
  /\ (pc # "idle") =>
       (stages[Len(stages)].ok /\ pc = StageOrder[Len(stages) + 1])
  /\ (HasReturned /\ result.tag = "Err") =>
       LET failed == stages[Len(stages)] IN
         /\ ~failed.ok
         /\ gpu = NoGpu
         /\ CASE failed.stage = "driver_init" ->
                   result.msg = <<"Could not initialize libdrm">>
              [] failed.stage = "enumeration" ->
                   result.msg = <<"No AMD GPU found">>
              [] failed.stage \in {"path_resolution", "file_open"} ->
                   Contains(result.msg, ToString(failed.err))
              [] failed.stage = "handle_init" ->
                   /\ Contains(result.msg, "Could not init device handle: ")
                   /\ Contains(result.msg, ToString(failed.err))
              [] failed.stage = "info_query" ->
                   /\ Contains(result.msg, "Could not get device info: ")
                   /\ Contains(result.msg, ToString(failed.err))
C9_Witness ==
  /\ FailedAt("handle_init")
  /\ stages[5].err = -13
  /\ Contains(result.msg, "-13")
  /\ gpu = NoGpu

\* C10: load_pct returns a value in 0..100, whatever the GPU-load sensor
\* query reports and however it fails.
C10_LoadPctInRange ==
  (last.op = "load_pct") => (last.num \in 0..100)

====
